---- MODULE Spec2Model ----
(***************************************************************************)
(* AIconPack (src/main.py): the retry-protected remote image client        *)
(* IconGenerator.generate, and the two packaging workers of AIconPackGUI   *)
(* (_pack_thread, _auto_pack_thread) with the buttons that start them.     *)
(***************************************************************************)
EXTENDS Integers, Sequences, FiniteSets, TLC

(* ------------------------------ bounds --------------------------------- *)
\* largest image count requested of the one-image-per-call model
MaxN == 3
\* number of packaging jobs started in one run of the application
MaxJobs == 2
\* number of generations started in one run of the application
MaxGens == 3
\* longest list given to a multi-valued option of build_cmd
MaxLen == 2
\* build_cmd calls made on one packer (a pack call makes one of them)
MaxCalls == 2
\* add_template calls made on one generator
MaxAdds == 2
\* import statements of one script
MaxStmts == 2

(* -------------------------- program constants -------------------------- *)
max_retries == 3
MaxBatch == 10
DALLE3_SIZES == {"1024x1024", "1024x1792", "1792x1024"}
DefaultSize == "1024x1024"

Models == {"dall-e-3", "dall-e-2"}
Sizes == {"1792x1024", "512x512"}
Formats == {"path", "pil", "bytes", "b64"}
\* the counts a caller asks for: small ones and, where one call carries the
\* whole batch, two around the clamp
Counts(model) ==
    IF model = "dall-e-3" THEN 0 .. MaxN ELSE (0 .. MaxN) \cup {MaxBatch, MaxBatch + 1}
\* what one call of client.images.generate can do
CallOutcomes == {"ok", "APIConnectionError", "RateLimitError", "BadRequestError"}

VARIABLES
    \* ---- IconGenerator
    api_key,        \* TRUE when self.api_key is set
    client,         \* TRUE when self._client is constructed
    gpc,            \* position of the running generate call
    gModel, gN, gSize, gFormat,   \* arguments of the running call
    size,           \* the resolution after the whitelist check
    batch_size, batches,
    retries, all_data,
    gi,             \* calls completed in the current pass of the for loop
    gCalls,         \* remote calls issued by this generate
    gTrace,         \* remote calls and backoff waits of this generate, in order
    results,        \* the returned list
    gErr, gCause,   \* the raised error and the error it wraps
    gDirMade, gFiles,
    \* ---- AIconPackGUI: widgets and the Tk event queue
    pack_btn, auto_pack_btn,   \* "normal" | "disabled"
    pack_bar,                  \* TRUE while the progress bar runs
    msgbox,                    \* TRUE while the modal error dialog is open
    status,                    \* the text of the status bar
    sw_keep,                   \* the keep-only-executable switch
    afterQ,                    \* callbacks posted with self.after(0, ...)
    jobSeq,                    \* packaging jobs started so far
    \* ---- the project directory
    fsBuild, fsDist, fsSpec,   \* build/, dist/, <app_name>.spec exist
    fsVenv,                    \* .aipack_venv: [st, owner, pkgs]
    fsReq, fsReqBak,           \* requirements.txt(.bak): [exists, pkgs]
    fsLog,                     \* pack_log.txt: 0, or the job that wrote it
    \* ---- _pack_thread
    mpc, mJob, mRc, mKeep, mFinal, mLogWritten, mTrace, mEscaped,
    mScript,        \* the script argument of the thread
    mKeep0,         \* what the keep switch showed when the running job was started
    \* ---- _auto_pack_thread
    apc, aJob, aScript, using_existing, aScan, aRc, aKeep, aFinal, aLogWritten,
    aTrace, aExc, aEscaped, aTeardowns,
    aPath,          \* the script argument of the thread
    aKeep0,         \* what the keep switch showed when the running job was started
    aReq0,          \* requirements.txt as it was when the job was started
    aInstalled,     \* what pip install -r put into the environment of this job
    \* ---- AIconPackGUI: the generation page
    gen_btn,        \* "normal" | "disabled"
    ai_bar,         \* TRUE while the progress bar of the page runs
    gWorkers,       \* position of every _gen_thread started so far
    generated_icon, \* self.generated_icon: path of the last icon, "" for None
    preview_img,    \* the image shown in the preview label, "" for none
    \* ---- PyInstallerPacker
    packer,         \* the fields set by __init__
    platform,       \* platform.system()
    pArgs,          \* the arguments of build_cmd / pack
    pCalls,         \* build_cmd calls made
    pCmd,           \* the list the latest build_cmd returned
    pDry, pRet,     \* dry_run of the pack call, and what pack returned
    pRuns,          \* subprocess.run calls made by pack
    \* ---- IconGenerator: prompt assembly
    templates,      \* self.templates: the template of every name
    tOrder,         \* self.templates: its names in insertion order
    pStyle, pPrompt, pKeywords,   \* style, prompt, extra_keywords
    full_prompt,    \* the assembled prompt, <<>> before the assembly
    \* ---- IconGenerator: template management
    tCalls,         \* add_template calls made
    tLast,          \* the latest add_template call and how it ended
    \* ---- AIconPackGUI._detect_dependencies
    dScript,        \* the import statements of the script
    dEnv,           \* importlib.metadata.packages_distributions()
    requirements,   \* the list returned
    dManifest       \* requirements.txt as written by the call

genVars == <<api_key, client, gpc, gModel, gN, gSize, gFormat, size, batch_size,
             batches, retries, all_data, gi, gCalls, gTrace, results, gErr, gCause,
             gDirMade, gFiles>>

guiVars == <<pack_btn, auto_pack_btn, pack_bar, msgbox, status, sw_keep, afterQ,
             jobSeq>>
fsVars == <<fsBuild, fsDist, fsSpec, fsVenv, fsReq, fsReqBak, fsLog>>
\* what _start_pack / _start_auto_pack fix for the whole job
mStart == <<mJob, mScript>>
aStart == <<aJob, aPath, aReq0>>
manVars == <<mpc, mStart, mKeep0, mRc, mKeep, mFinal, mLogWritten, mTrace, mEscaped>>
autoVars == <<apc, aStart, aKeep0, aScript, using_existing, aScan,
              aInstalled, aRc, aKeep, aFinal,
              aLogWritten, aTrace, aExc, aEscaped, aTeardowns>>
buildVars == <<guiVars, fsVars, manVars, autoVars>>

uiVars == <<gen_btn, ai_bar, gWorkers, generated_icon, preview_img>>
cmdVars == <<packer, platform, pArgs, pCalls, pCmd, pDry, pRet, pRuns>>
promptVars == <<templates, tOrder, pStyle, pPrompt, pKeywords, full_prompt>>
tplVars == <<tCalls, tLast>>
depVars == <<dScript, dEnv, requirements, dManifest>>
auxVars == <<tplVars, depVars>>
libVars == <<uiVars, cmdVars, promptVars, auxVars>>

vars == <<genVars, buildVars, libVars>>

(* ------------------------- IconGenerator.generate ---------------------- *)
Min(a, b) == IF a < b THEN a ELSE b
Max(a, b) == IF a > b THEN a ELSE b

Pow2Linear(k) == 2 * k
\* 2 ** retries
RECURSIVE Pow2(_)
Pow2(k) == IF k = 0 THEN 1 ELSE 2 * Pow2(k - 1)

EffectiveSizeAnyModel(model, sz) == IF sz \notin DALLE3_SIZES THEN DefaultSize ELSE sz
\* if model == "dall-e-3" and size not in DALLE3_SIZES: size = "1024x1024"
EffectiveSize(model, sz) ==
    IF model = "dall-e-3" /\ sz \notin DALLE3_SIZES THEN DefaultSize ELSE sz

BatchSizeUnclamped(model, n) == IF model = "dall-e-3" THEN 1 ELSE n
\* batch_size = 1 if model == "dall-e-3" else min(max(n, 1), 10)
BatchSize(model, n) == IF model = "dall-e-3" THEN 1 ELSE Min(Max(n, 1), MaxBatch)
Batches(model, n) == IF model = "dall-e-3" THEN n ELSE 1

NoCredentialUnchecked(c, key) == FALSE
\* if self._client is None: if not self.api_key: raise RuntimeError(...)
NoCredential(c, key) == ~c /\ ~key

IsTransientAny(e) == e # "ok"
\* except (APIConnectionError, RateLimitError)
IsTransient(e) == e \in {"APIConnectionError", "RateLimitError"}

RetryExhaustedEarly(r) == r >= max_retries
\* if retries > self.max_retries: raise
RetryExhausted(r) == r > max_retries

\* rsp.data of the call numbered c that asked for k images
RspData(c, k) == [j \in 1 .. k |-> <<c, j>>]

CallEvent(out, k, sz) == [ev |-> "call", out |-> out, n |-> k, size |-> sz]
SleepEvent(secs) == [ev |-> "sleep", out |-> "-", n |-> secs, size |-> "-"]

GenIdle ==
    /\ gpc' = "idle"
    /\ gModel' = "-" /\ gN' = 0 /\ gSize' = "-" /\ gFormat' = "-"
    /\ size' = "-" /\ batch_size' = 0 /\ batches' = 0
    /\ retries' = 0 /\ all_data' = <<>> /\ gi' = 0 /\ gCalls' = 0
    /\ gTrace' = <<>> /\ results' = <<>> /\ gErr' = "none" /\ gCause' = "none"

GenInit ==
    /\ api_key \in BOOLEAN
    /\ client = api_key
    /\ gpc = "idle"
    /\ gModel = "-" /\ gN = 0 /\ gSize = "-" /\ gFormat = "-"
    /\ size = "-" /\ batch_size = 0 /\ batches = 0
    /\ retries = 0 /\ all_data = <<>> /\ gi = 0 /\ gCalls = 0
    /\ gTrace = <<>> /\ results = <<>> /\ gErr = "none" /\ gCause = "none"
    /\ gDirMade = FALSE /\ gFiles = {}

\* the key is filled in after construction (icon_gen.api_key = ...)
SetApiKey ==
    /\ UNCHANGED <<buildVars, libVars>>
    /\ gpc = "idle" /\ ~api_key
    /\ api_key' = TRUE
    /\ UNCHANGED <<client, gpc, gModel, gN, gSize, gFormat, size, batch_size,
                   batches, retries, all_data, gi, gCalls, gTrace, results, gErr,
                   gCause, gDirMade, gFiles>>

\* generate(), lines 204-239: client check, size whitelist, batch plan
StartGenerate ==
    /\ UNCHANGED <<buildVars, libVars>>
    /\ gpc = "idle"
    /\ \E model \in Models, sz \in Sizes, fmt \in Formats : \E n \in Counts(model) :
        /\ gModel' = model /\ gN' = n /\ gSize' = sz /\ gFormat' = fmt
        /\ IF NoCredential(client, api_key)
           THEN /\ gpc' = "raised" /\ gErr' = "RuntimeError:NoApiKey"
                /\ UNCHANGED <<client, size, batch_size, batches>>
           ELSE /\ client' = TRUE
                /\ size' = EffectiveSize(model, sz)
                /\ batch_size' = BatchSize(model, n)
                /\ batches' = Batches(model, n)
                /\ gpc' = IF Batches(model, n) <= 0 THEN "materialize" ELSE "calling"
                /\ gErr' = "none"
    /\ retries' = 0 /\ all_data' = <<>> /\ gi' = 0 /\ gCalls' = 0
    /\ gTrace' = <<>> /\ results' = <<>> /\ gCause' = "none"
    /\ UNCHANGED <<api_key, gDirMade, gFiles>>

\* one self._client.images.generate(...) of the for loop, lines 245-267
RemoteCall ==
    /\ UNCHANGED <<buildVars, libVars>>
    /\ gpc = "calling"
    /\ \E out \in CallOutcomes :
        /\ gCalls' = gCalls + 1
        /\ gTrace' = Append(gTrace, CallEvent(out, batch_size, size))
        /\ IF out = "ok"
           THEN /\ all_data' = all_data \o RspData(gCalls + 1, batch_size)
                /\ gi' = gi + 1
                /\ gpc' = IF gi + 1 = batches THEN "materialize" ELSE "calling"
                /\ UNCHANGED <<retries, gErr, gCause>>
           ELSE IF IsTransient(out)
           THEN /\ retries' = retries + 1
                /\ gi' = 0
                /\ UNCHANGED all_data
                /\ IF RetryExhausted(retries + 1)
                   THEN gpc' = "raised" /\ gErr' = "RuntimeError:RequestFailed"
                        /\ gCause' = out
                   ELSE gpc' = "sleeping" /\ UNCHANGED <<gErr, gCause>>
           ELSE /\ gpc' = "raised" /\ gErr' = out /\ gCause' = "none"
                /\ UNCHANGED <<retries, all_data, gi>>
    /\ UNCHANGED <<api_key, client, gModel, gN, gSize, gFormat, size, batch_size,
                   batches, results, gDirMade, gFiles>>

\* time.sleep(2 ** retries), line 269, then the while loop runs the for loop again
BackoffSleep ==
    /\ UNCHANGED <<buildVars, libVars>>
    /\ gpc = "sleeping"
    /\ gTrace' = Append(gTrace, SleepEvent(Pow2(retries)))
    /\ gpc' = "calling"
    /\ UNCHANGED <<api_key, client, gModel, gN, gSize, gFormat, size, batch_size,
                   batches, retries, all_data, gi, gCalls, results, gErr, gCause,
                   gDirMade, gFiles>>

\* name = f"{prefix}_{idx}.png" if n > 1 else f"{prefix}.png"  (0: no suffix)
FileSuffix(n, idx) == IF n > 1 THEN idx ELSE 0

Artifact(fmt, n, idx, ref) ==
    [kind |-> fmt, ref |-> ref, name |-> IF fmt = "path" THEN FileSuffix(n, idx) ELSE -1]

\* lines 276-334: download and convert every element of all_data in order; a
\* download that raises at element failAt ends generate there (0: none raises)
Materialize ==
    /\ UNCHANGED <<buildVars, libVars>>
    /\ gpc = "materialize"
    /\ \E failAt \in 0 .. Len(all_data) :
        LET done == IF failAt = 0 THEN Len(all_data) ELSE failAt - 1 IN
        /\ gDirMade' = TRUE
        /\ gFiles' = IF gFormat = "path"
                     THEN gFiles \cup {FileSuffix(gN, i) : i \in 1 .. done}
                     ELSE gFiles
        /\ IF failAt = 0
           THEN /\ results' = [i \in 1 .. Len(all_data) |->
                                   Artifact(gFormat, gN, i, all_data[i])]
                /\ gpc' = "returned" /\ UNCHANGED gErr
           ELSE /\ gpc' = "raised" /\ gErr' = "DownloadError" /\ UNCHANGED results
    /\ UNCHANGED <<api_key, client, gModel, gN, gSize, gFormat, size, batch_size,
                   batches, retries, all_data, gi, gCalls, gTrace, gCause>>

\* the caller takes the result (or the error); the generator can be called again
GenFinish ==
    /\ UNCHANGED <<buildVars, libVars>>
    /\ gpc \in {"returned", "raised"}
    /\ GenIdle
    /\ gFiles' = {} /\ gDirMade' = FALSE
    /\ UNCHANGED <<api_key, client>>

GenNext == SetApiKey \/ StartGenerate \/ RemoteCall \/ BackoffSleep \/ Materialize
           \/ GenFinish

(* --------------------------- AIconPackGUI: packaging ------------------- *)
\* third-party packages a script can import
Pkgs == {"requests"}
\* lines appended to every generated requirements.txt
ExtraReqs == {"PyQt6", "PyQt6-Qt6", "PyQt6-sip", "pillow", "pyinstaller"}
\* a manifest the user wrote by hand
UserReqs == {"flask"}
\* the content of a requirements.txt.bak that an earlier session left
OldReqs == {"django"}
\* what the entry-script field can hold when a start button is clicked
Scripts == {"", "missing.py", "app.py"}
\* the paths that exist on disk
ExistingPaths == {"app.py"}

NoFile == [exists |-> FALSE, pkgs |-> {}]
File(pkgs) == [exists |-> TRUE, pkgs |-> pkgs]
NoVenv == [st |-> "absent", owner |-> 0, pkgs |-> {}]
\* a fresh environment holds no third-party package
NewVenv(st, job) == [st |-> st, owner |-> job, pkgs |-> {}]
RmTreeKeeps(venv) == venv
\* shutil.rmtree(project_root / ".aipack_venv", ignore_errors=True)
RmTree(venv) == NoVenv
\* python -m venv over what is at the path: an existing directory keeps the
\* packages it holds
CreateVenv(old, job) == [st |-> "created", owner |-> job, pkgs |-> old.pkgs]
\* the result of the dependency scan of this job
NoScan == [done |-> FALSE, pkgs |-> {}]

\* what subprocess.run of the bundling tool can do
PackOutcomes == {"rc0", "rc1", "raise"}
\* the exit code of a subprocess.check_call
ExitCodes == {0, 1}

\* def clean_artifacts(self, project_root, app_name)
CleanArtifactsParams == 2
\* self.clean_artifacts(project_root) in _pack_thread
ManualCleanArgs == 1
\* self.clean_artifacts(project_root, app_name) in _auto_pack_thread
AutoCleanArgs == 2

CheckCallNoRaise(rc) == "ok"
\* subprocess.check_call: a nonzero exit raises CalledProcessError
CheckCall(rc) == IF rc = 0 THEN "ok" ELSE "CalledProcessError"

\* the entry a stage leaves in the worker's trace
StageEvent(name, succeeded) == IF succeeded THEN name ELSE name \o "_fail"

\* self.after(0, callback)
Post(q, op, arg) == Append(q, [op |-> op, arg |-> arg])

\* finally of _pack_thread
ManualFinally(q) == Post(Post(q, "pack_btn", "normal"), "bar_stop", "-")
\* finally of _auto_pack_thread (the two posts)
AutoFinally(q) == Post(Post(q, "bar_stop", "-"), "auto_pack_btn", "normal")

\* finally of _auto_pack_thread: the backup is moved back over requirements.txt
RestoreReq(using, req, bak) == IF ~using /\ bak.exists THEN bak ELSE req
RestoreBak(using, bak) == IF ~using /\ bak.exists THEN NoFile ELSE bak

BuildInit ==
    /\ pack_btn = "normal" /\ auto_pack_btn = "normal" /\ pack_bar = FALSE
    /\ msgbox = FALSE
    /\ status = "ready" /\ sw_keep = FALSE /\ afterQ = <<>> /\ jobSeq = 0
    \* the project directory is clean, or holds what an earlier session left
    /\ \E left \in BOOLEAN :
        /\ fsBuild = left /\ fsDist = left /\ fsSpec = left
        /\ fsVenv = IF left THEN [st |-> "ready", owner |-> 0, pkgs |-> ExtraReqs]
                            ELSE NoVenv
        /\ fsReqBak = IF left THEN File(OldReqs) ELSE NoFile
    /\ fsReq \in {NoFile, File(UserReqs)}
    /\ fsLog = 0
    /\ mpc = "idle" /\ mJob = 0 /\ mRc = -1 /\ mKeep = "unread" /\ mFinal = "none"
    /\ mLogWritten = FALSE /\ mTrace = <<>> /\ mEscaped = FALSE
    /\ mScript = "-" /\ mKeep0 = FALSE
    /\ apc = "idle" /\ aJob = 0 /\ aScript = {} /\ using_existing = FALSE
    /\ aScan = NoScan /\ aRc = -1 /\ aKeep = "unread" /\ aFinal = "none"
    /\ aLogWritten = FALSE /\ aTrace = <<>> /\ aExc = "none" /\ aEscaped = FALSE
    /\ aTeardowns = 0
    /\ aPath = "-" /\ aKeep0 = FALSE /\ aReq0 = NoFile /\ aInstalled = {}

\* the user flips the keep-only-executable switch
ToggleKeep ==
    /\ ~msgbox
    /\ sw_keep' = ~sw_keep
    /\ UNCHANGED <<pack_btn, auto_pack_btn, pack_bar, msgbox, status, afterQ, jobSeq>>
    /\ UNCHANGED <<fsVars, manVars, autoVars, genVars, libVars>>

\* the Tk main loop runs the oldest posted callback
RunAfter ==
    /\ afterQ # <<>>
    /\ LET cb == Head(afterQ) IN
        /\ status' = IF cb.op = "status" THEN cb.arg
                      ELSE IF cb.op = "preview" THEN "generated" ELSE status
        /\ pack_btn' = IF cb.op = "pack_btn" THEN cb.arg ELSE pack_btn
        /\ auto_pack_btn' = IF cb.op = "auto_pack_btn" THEN cb.arg ELSE auto_pack_btn
        /\ pack_bar' = IF cb.op = "bar_stop" THEN FALSE ELSE pack_bar
        /\ gen_btn' = IF cb.op = "gen_btn" THEN cb.arg ELSE gen_btn
        /\ ai_bar' = IF cb.op = "ai_stop" THEN FALSE ELSE ai_bar
        /\ preview_img' = IF cb.op = "preview" THEN cb.arg ELSE preview_img
    /\ afterQ' = Tail(afterQ)
    /\ UNCHANGED <<msgbox, sw_keep, jobSeq, fsVars, manVars, autoVars, genVars>>
    /\ UNCHANGED <<gWorkers, generated_icon, cmdVars, promptVars, auxVars>>

InvalidScriptEmptyOnly(script) == script = ""
\* if not script or not Path(script).exists()
InvalidScript(script) == script = "" \/ script \notin ExistingPaths

\* messagebox.showerror is modal: the main window takes no input until the
\* user closes the dialog, then the handler returns
DismissError ==
    /\ msgbox
    /\ msgbox' = FALSE
    /\ UNCHANGED <<pack_btn, auto_pack_btn, pack_bar, status, sw_keep, afterQ, jobSeq>>
    /\ UNCHANGED <<fsVars, manVars, autoVars, genVars, libVars>>

\* _start_pack: a click on the (enabled) pack button
StartPack ==
    /\ pack_btn = "normal" /\ ~msgbox /\ jobSeq < MaxJobs
    /\ \E script \in Scripts :
        IF InvalidScript(script)
        THEN /\ msgbox' = TRUE
             /\ UNCHANGED <<pack_btn, auto_pack_btn, pack_bar, status, sw_keep, afterQ,
                            jobSeq, manVars>>
        ELSE /\ pack_btn' = "disabled" /\ pack_bar' = TRUE /\ status' = "starting"
             /\ jobSeq' = jobSeq + 1
             /\ mpc' = "preclean" /\ mJob' = jobSeq + 1 /\ mRc' = -1
             /\ mKeep' = "unread" /\ mFinal' = "none" /\ mLogWritten' = FALSE
             /\ mTrace' = <<>> /\ mEscaped' = FALSE
             /\ mScript' = script /\ mKeep0' = sw_keep
             /\ UNCHANGED <<auto_pack_btn, msgbox, sw_keep, afterQ>>
    /\ UNCHANGED <<fsVars, autoVars, genVars, libVars>>

\* _start_auto_pack: a click on the (enabled) auto-dependency button
StartAutoPack ==
    /\ auto_pack_btn = "normal" /\ ~msgbox /\ jobSeq < MaxJobs
    /\ \E script \in Scripts, deps \in SUBSET Pkgs :
        IF InvalidScript(script)
        THEN /\ msgbox' = TRUE
             /\ UNCHANGED <<pack_btn, auto_pack_btn, pack_bar, status, sw_keep, afterQ,
                            jobSeq, autoVars>>
        ELSE /\ auto_pack_btn' = "disabled" /\ pack_bar' = TRUE
             /\ status' = "preparing" /\ jobSeq' = jobSeq + 1
             /\ apc' = "preclean" /\ aJob' = jobSeq + 1 /\ aScript' = deps
             /\ using_existing' = FALSE /\ aScan' = NoScan /\ aRc' = -1
             /\ aKeep' = "unread" /\ aFinal' = "none" /\ aLogWritten' = FALSE
             /\ aTrace' = <<>> /\ aExc' = "none" /\ aEscaped' = FALSE
             /\ aTeardowns' = 0
             /\ aPath' = script /\ aKeep0' = sw_keep /\ aReq0' = fsReq
             /\ aInstalled' = {}
             /\ UNCHANGED <<pack_btn, msgbox, sw_keep, afterQ>>
    /\ UNCHANGED <<fsVars, manVars, genVars, libVars>>

(* ------------------------------ _pack_thread --------------------------- *)
\* pre_clean_artifacts, called before the try block: an unlink that raises
\* (the .spec cannot be removed) ends the thread with nothing posted
M_PreClean ==
    /\ mpc = "preclean"
    /\ \E raises \in {FALSE, fsSpec} :
        /\ fsBuild' = FALSE /\ fsDist' = FALSE
        /\ IF raises
           THEN /\ mpc' = "done" /\ mEscaped' = TRUE
                /\ mTrace' = Append(mTrace, "preclean_raise")
                /\ UNCHANGED <<fsSpec, fsVenv, fsReqBak>>
           ELSE /\ mpc' = "pack" /\ UNCHANGED mEscaped
                /\ mTrace' = Append(mTrace, "preclean")
                /\ fsSpec' = FALSE /\ fsVenv' = RmTree(fsVenv) /\ fsReqBak' = NoFile
    /\ UNCHANGED <<fsReq, fsLog, mStart, mRc, mKeep, mFinal, mLogWritten>>
    /\ UNCHANGED <<guiVars, autoVars, genVars, libVars>>
    /\ mKeep0' = (mKeep0 /\ mpc' # "done")

\* packer.pack(...): the bundling tool runs with the current interpreter
M_Pack ==
    /\ mpc = "pack"
    /\ \E out \in PackOutcomes, made \in BOOLEAN :
        IF out = "raise"
        THEN /\ mpc' = "done" /\ mFinal' = "exception"
             /\ mTrace' = Append(mTrace, "pack_raise")
             /\ afterQ' = ManualFinally(Post(afterQ, "status", "exception"))
             /\ UNCHANGED <<mRc, fsBuild, fsDist, fsSpec>>
        ELSE /\ mpc' = "after_pack" /\ mRc' = IF out = "rc0" THEN 0 ELSE 1
             /\ mTrace' = Append(mTrace, "pack_" \o out)
             /\ fsBuild' = (fsBuild \/ out = "rc0" \/ made)
             /\ fsSpec' = (fsSpec \/ out = "rc0" \/ made)
             /\ fsDist' = (fsDist \/ out = "rc0")
             /\ UNCHANGED <<mFinal, afterQ>>
    /\ UNCHANGED <<fsVenv, fsReq, fsReqBak, fsLog, mStart, mKeep, mLogWritten,
                   mEscaped>>
    /\ UNCHANGED <<pack_btn, auto_pack_btn, pack_bar, msgbox, status, sw_keep, jobSeq>>
    /\ UNCHANGED <<autoVars, genVars, libVars>>
    /\ mKeep0' = (mKeep0 /\ mpc' # "done")

\* lines 1439-1455: optional cleanup, log, status, finally
M_Finish ==
    /\ mpc = "after_pack"
    /\ mpc' = "done"
    /\ mKeep' = IF mRc = 0 THEN (IF sw_keep THEN "on" ELSE "off") ELSE mKeep
    /\ IF mRc = 0 /\ sw_keep
       THEN IF ManualCleanArgs # CleanArtifactsParams
            THEN \* TypeError: the except branch reports it
                 /\ mTrace' = Append(mTrace, "clean_raise")
                 /\ mFinal' = "exception"
                 /\ afterQ' = ManualFinally(Post(afterQ, "status", "exception"))
                 /\ UNCHANGED <<fsBuild, fsSpec, fsVenv, fsLog, mLogWritten>>
            ELSE \E logOk \in BOOLEAN :
                 /\ fsBuild' = FALSE /\ fsSpec' = FALSE /\ fsVenv' = RmTree(fsVenv)
                 /\ mTrace' = mTrace \o <<"clean">>
                                \o (IF logOk THEN <<"log", "status">> ELSE <<"log_raise">>)
                 /\ mLogWritten' = logOk
                 /\ fsLog' = IF logOk THEN mJob ELSE fsLog
                 /\ mFinal' = IF logOk THEN "success" ELSE "exception"
                 /\ afterQ' = ManualFinally(Post(afterQ, "status",
                                  IF logOk THEN "success" ELSE "exception"))
       ELSE \E logOk \in BOOLEAN :
            /\ mTrace' = mTrace \o (IF logOk THEN <<"log", "status">> ELSE <<"log_raise">>)
            /\ mLogWritten' = logOk
            /\ fsLog' = IF logOk THEN mJob ELSE fsLog
            /\ mFinal' = IF ~logOk THEN "exception"
                         ELSE IF mRc = 0 THEN "success" ELSE "failed"
            /\ afterQ' = ManualFinally(Post(afterQ, "status",
                             IF ~logOk THEN "exception"
                             ELSE IF mRc = 0 THEN "success" ELSE "failed"))
            /\ UNCHANGED <<fsBuild, fsSpec, fsVenv>>
    /\ UNCHANGED <<fsDist, fsReq, fsReqBak, mStart, mRc, mEscaped>>
    /\ UNCHANGED <<pack_btn, auto_pack_btn, pack_bar, msgbox, status, sw_keep, jobSeq>>
    /\ UNCHANGED <<autoVars, genVars, libVars>>
    /\ mKeep0' = (mKeep0 /\ mpc' # "done")

(* --------------------------- _auto_pack_thread ------------------------- *)
\* the worker leaves the try block with exception exc: the except clause takes a
\* CalledProcessError and posts the status, anything else passes through it;
\* finally restores a backed-up manifest and posts the two widget updates
A_Raise(exc, ev) ==
    /\ apc' = "done" /\ aExc' = exc
    /\ aTrace' = Append(aTrace, ev)
    /\ aFinal' = IF exc = "CalledProcessError" THEN "exception" ELSE aFinal
    /\ aEscaped' = (exc # "CalledProcessError")
    /\ afterQ' = AutoFinally(IF exc = "CalledProcessError"
                             THEN Post(afterQ, "status", "exception") ELSE afterQ)
    /\ fsReq' = RestoreReq(using_existing, fsReq, fsReqBak)
    /\ fsReqBak' = RestoreBak(using_existing, fsReqBak)

\* a check_call that runs the environment's interpreter: without the interpreter
\* it cannot start (FileNotFoundError), else it exits with rc
VenvCall(rc) == IF fsVenv.st \in {"absent"} THEN "FileNotFoundError" ELSE CheckCall(rc)

\* 0) pre_clean_artifacts, inside the try block
A_PreClean ==
    /\ apc = "preclean"
    /\ \E raises \in {FALSE, fsSpec} :
        /\ fsBuild' = FALSE /\ fsDist' = FALSE
        /\ IF raises
           THEN /\ A_Raise("OSError", "preclean_raise")
                /\ UNCHANGED <<fsSpec, fsVenv>>
           ELSE /\ apc' = "resolve"
                /\ aTrace' = Append(aTrace, "preclean")
                /\ fsSpec' = FALSE /\ fsVenv' = RmTree(fsVenv) /\ fsReqBak' = NoFile
                /\ UNCHANGED <<fsReq, aExc, aFinal, aEscaped, afterQ>>
    /\ UNCHANGED <<fsLog, aStart, aScript, using_existing, aScan, aInstalled, aRc, aKeep,
                   aLogWritten, aTeardowns>>
    /\ UNCHANGED <<pack_btn, auto_pack_btn, pack_bar, msgbox, status, sw_keep, jobSeq>>
    /\ UNCHANGED <<manVars, genVars, libVars>>
    /\ aKeep0' = (aKeep0 /\ apc' # "done")

\* 1) using_existing = req_path.exists(); the manifest is reused or a scan starts
A_Resolve ==
    /\ apc = "resolve"
    /\ using_existing' = fsReq.exists
    /\ IF fsReq.exists
       THEN /\ apc' = "venv" /\ aTrace' = Append(aTrace, "reuse")
            /\ afterQ' = Post(afterQ, "status", "reuse")
       ELSE /\ apc' = "pipreqs_install" /\ aTrace' = aTrace
            /\ afterQ' = Post(afterQ, "status", "scanning")
    /\ UNCHANGED <<aStart, aScript, aScan, aInstalled, aRc, aKeep, aFinal, aLogWritten, aExc,
                   aEscaped, aTeardowns>>
    /\ UNCHANGED <<pack_btn, auto_pack_btn, pack_bar, msgbox, status, sw_keep, jobSeq>>
    /\ UNCHANGED <<fsVars, manVars, genVars, libVars>>
    /\ aKeep0' = (aKeep0 /\ apc' # "done")

\* check_call([sys.executable, "-m", "pip", "install", "-q", "pipreqs>=0.4.13"])
A_PipreqsInstall ==
    /\ apc = "pipreqs_install"
    /\ \E rc \in ExitCodes :
        IF CheckCall(rc) = "ok"
        THEN /\ apc' = "pipreqs_run"
             /\ aTrace' = Append(aTrace, StageEvent("scan_tool", rc = 0))
             /\ UNCHANGED <<aExc, aFinal, aEscaped, afterQ, fsReq, fsReqBak>>
        ELSE A_Raise(CheckCall(rc), StageEvent("scan_tool", FALSE))
    /\ UNCHANGED <<fsBuild, fsDist, fsSpec, fsVenv, fsLog>>
    /\ UNCHANGED <<aStart, aScript, using_existing, aScan, aInstalled, aRc, aKeep, aLogWritten,
                   aTeardowns>>
    /\ UNCHANGED <<pack_btn, auto_pack_btn, pack_bar, msgbox, status, sw_keep, jobSeq>>
    /\ UNCHANGED <<manVars, genVars, libVars>>
    /\ aKeep0' = (aKeep0 /\ apc' # "done")

AfterScanShortCircuit(pkgs) == IF pkgs = {} THEN "icon" ELSE "venv"
AfterScanSkipsVenv(pkgs) == "pip_upgrade"
\* lines 1503-1510: whatever the scan found, the next stage is the environment
AfterScan(pkgs) == "venv"

\* check_call of pipreqs, which writes requirements.txt, then the fixed lines
\* are appended to it
A_PipreqsRun ==
    /\ apc = "pipreqs_run"
    /\ \E rc \in ExitCodes :
        IF CheckCall(rc) = "ok"
        THEN /\ apc' = AfterScan(aScript)
             /\ aTrace' = Append(aTrace, StageEvent("scan", rc = 0))
             /\ aScan' = [done |-> TRUE, pkgs |-> aScript]
             /\ fsReq' = File(aScript \cup ExtraReqs)
             /\ UNCHANGED <<aExc, aFinal, aEscaped, afterQ, fsReqBak>>
        ELSE A_Raise(CheckCall(rc), StageEvent("scan", FALSE)) /\ UNCHANGED aScan
    /\ UNCHANGED <<fsBuild, fsDist, fsSpec, fsVenv, fsLog>>
    /\ UNCHANGED <<aStart, aScript, using_existing, aInstalled, aRc,
                   aKeep, aLogWritten, aTeardowns>>
    /\ UNCHANGED <<pack_btn, auto_pack_btn, pack_bar, msgbox, status, sw_keep, jobSeq>>
    /\ UNCHANGED <<manVars, genVars, libVars>>
    /\ aKeep0' = (aKeep0 /\ apc' # "done")

\* 2) an existing .aipack_venv is removed, then check_call of python -m venv
A_Venv ==
    /\ apc = "venv"
    /\ \E rc \in ExitCodes, partial \in BOOLEAN :
        IF CheckCall(rc) = "ok"
        THEN /\ apc' = "pip_upgrade"
             /\ aTrace' = Append(aTrace, StageEvent("venv", rc = 0))
             /\ fsVenv' = CreateVenv(RmTree(fsVenv), aJob)
             /\ afterQ' = Post(afterQ, "status", "installing")
             /\ UNCHANGED <<aExc, aFinal, aEscaped, fsReq, fsReqBak>>
        ELSE /\ A_Raise(CheckCall(rc), StageEvent("venv", FALSE))
             /\ fsVenv' = IF partial THEN NewVenv("partial", aJob) ELSE NoVenv
    /\ UNCHANGED <<fsBuild, fsDist, fsSpec, fsLog>>
    /\ UNCHANGED <<aStart, aScript, using_existing, aScan, aInstalled, aRc, aKeep, aLogWritten,
                   aTeardowns>>
    /\ UNCHANGED <<pack_btn, auto_pack_btn, pack_bar, msgbox, status, sw_keep, jobSeq>>
    /\ UNCHANGED <<manVars, genVars, libVars>>
    /\ aKeep0' = (aKeep0 /\ apc' # "done")

\* check_call([python_exe, "-m", "pip", "install", "--upgrade", "pip"])
A_PipUpgrade ==
    /\ apc = "pip_upgrade"
    /\ \E rc \in ExitCodes :
        IF VenvCall(rc) = "ok"
        THEN /\ apc' = "install"
             /\ aTrace' = Append(aTrace, StageEvent("pip_upgrade", rc = 0))
             /\ fsVenv' = [fsVenv EXCEPT !.st = "pip"]
             /\ UNCHANGED <<aExc, aFinal, aEscaped, afterQ, fsReq, fsReqBak>>
        ELSE A_Raise(VenvCall(rc), StageEvent("pip_upgrade", FALSE)) /\ UNCHANGED fsVenv
    /\ UNCHANGED <<fsBuild, fsDist, fsSpec, fsLog>>
    /\ UNCHANGED <<aStart, aScript, using_existing, aScan, aInstalled, aRc, aKeep, aLogWritten,
                   aTeardowns>>
    /\ UNCHANGED <<pack_btn, auto_pack_btn, pack_bar, msgbox, status, sw_keep, jobSeq>>
    /\ UNCHANGED <<manVars, genVars, libVars>>
    /\ aKeep0' = (aKeep0 /\ apc' # "done")

\* check_call([python_exe, "-m", "pip", "install", "--no-cache-dir", "-r", req_path])
A_Install ==
    /\ apc = "install"
    /\ \E rc \in ExitCodes :
        IF VenvCall(rc) = "ok"
        THEN /\ apc' = "icon"
             /\ aTrace' = Append(aTrace, StageEvent("install", rc = 0))
             /\ fsVenv' = [fsVenv EXCEPT !.st = "ready", !.pkgs = fsReq.pkgs]
             /\ aInstalled' = fsReq.pkgs
             /\ UNCHANGED <<aExc, aFinal, aEscaped, afterQ, fsReq, fsReqBak>>
        ELSE /\ A_Raise(VenvCall(rc), StageEvent("install", FALSE))
             /\ UNCHANGED <<fsVenv, aInstalled>>
    /\ UNCHANGED <<fsBuild, fsDist, fsSpec, fsLog>>
    /\ UNCHANGED <<aStart, aScript, using_existing, aScan, aRc, aKeep, aLogWritten,
                   aTeardowns>>
    /\ UNCHANGED <<pack_btn, auto_pack_btn, pack_bar, msgbox, status, sw_keep, jobSeq>>
    /\ UNCHANGED <<manVars, genVars, libVars>>
    /\ aKeep0' = (aKeep0 /\ apc' # "done")

\* 3) on macOS an icon that is not .icns is converted with Pillow, which raises
\* on a file it cannot read; elsewhere, or without an icon, nothing happens
A_Icon ==
    /\ apc = "icon"
    /\ \E conv \in {"skip", "ok", "raise"} :
        IF conv = "raise"
        THEN A_Raise("OSError", "icon_raise")
        ELSE /\ apc' = "pack"
             /\ aTrace' = IF conv = "ok" THEN Append(aTrace, "icon") ELSE aTrace
             /\ afterQ' = IF conv = "ok" THEN Post(afterQ, "status", "icns") ELSE afterQ
             /\ UNCHANGED <<aExc, aFinal, aEscaped, fsReq, fsReqBak>>
    /\ UNCHANGED <<fsBuild, fsDist, fsSpec, fsVenv, fsLog>>
    /\ UNCHANGED <<aStart, aScript, using_existing, aScan, aInstalled, aRc, aKeep, aLogWritten,
                   aTeardowns>>
    /\ UNCHANGED <<pack_btn, auto_pack_btn, pack_bar, msgbox, status, sw_keep, jobSeq>>
    /\ UNCHANGED <<manVars, genVars, libVars>>
    /\ aKeep0' = (aKeep0 /\ apc' # "done")

\* python -m PyInstaller with the environment's interpreter: it cannot start
\* without the interpreter, and exits nonzero (No module named PyInstaller)
\* when the tool is not installed in the environment
VenvPackOutcomes(venv) ==
    IF venv.st = "absent" THEN {"raise"}
    ELSE IF "pyinstaller" \notin venv.pkgs THEN {"rc1"}
    ELSE PackOutcomes

\* 4) packer.pack(...) with the environment's interpreter
A_Pack ==
    /\ apc = "pack"
    /\ \E out \in VenvPackOutcomes(fsVenv), made \in BOOLEAN :
        IF out = "raise"
        THEN /\ A_Raise("OSError", "pack_raise")
             /\ UNCHANGED <<aRc, fsBuild, fsDist, fsSpec>>
        ELSE /\ apc' = "after_pack" /\ aRc' = IF out = "rc0" THEN 0 ELSE 1
             /\ aTrace' = Append(aTrace, "pack_" \o out)
             /\ fsBuild' = (fsBuild \/ out = "rc0" \/ made)
             /\ fsSpec' = (fsSpec \/ out = "rc0" \/ made)
             /\ fsDist' = (fsDist \/ out = "rc0")
             /\ UNCHANGED <<aExc, aFinal, aEscaped, afterQ, fsReq, fsReqBak>>
    /\ UNCHANGED <<fsVenv, fsLog>>
    /\ UNCHANGED <<aStart, aScript, using_existing, aScan, aInstalled, aKeep, aLogWritten, aTeardowns>>
    /\ UNCHANGED <<pack_btn, auto_pack_btn, pack_bar, msgbox, status, sw_keep, jobSeq>>
    /\ UNCHANGED <<manVars, genVars, libVars>>
    /\ aKeep0' = (aKeep0 /\ apc' # "done")

\* 5), 6) and finally: optional cleanup, log, status
A_Finish ==
    /\ apc = "after_pack"
    /\ apc' = "done"
    /\ aKeep' = IF aRc = 0 THEN (IF sw_keep THEN "on" ELSE "off") ELSE aKeep
    /\ LET cleans == aRc = 0 /\ sw_keep IN
       IF cleans /\ AutoCleanArgs # CleanArtifactsParams
       THEN /\ aTrace' = Append(aTrace, "clean_raise")
            /\ aExc' = "TypeError" /\ aEscaped' = TRUE
            /\ afterQ' = AutoFinally(afterQ)
            /\ UNCHANGED <<fsBuild, fsSpec, fsVenv, fsLog, aLogWritten, aFinal,
                           aTeardowns>>
       ELSE \E logOk \in BOOLEAN :
            /\ fsBuild' = IF cleans THEN FALSE ELSE fsBuild
            /\ fsSpec' = IF cleans THEN FALSE ELSE fsSpec
            /\ fsVenv' = IF cleans THEN RmTree(fsVenv) ELSE fsVenv
            /\ aTeardowns' = IF cleans THEN aTeardowns + 1 ELSE aTeardowns
            /\ aTrace' = aTrace \o (IF cleans THEN <<"clean">> ELSE <<>>)
                           \o (IF logOk THEN <<"log", "status">> ELSE <<"log_raise">>)
            /\ aLogWritten' = logOk
            /\ fsLog' = IF logOk THEN aJob ELSE fsLog
            /\ aFinal' = IF ~logOk THEN aFinal
                         ELSE IF aRc = 0 THEN "success" ELSE "failed"
            /\ aExc' = IF logOk THEN aExc ELSE "OSError"
            /\ aEscaped' = ~logOk
            /\ afterQ' = AutoFinally(IF logOk
                             THEN Post(afterQ, "status",
                                       IF aRc = 0 THEN "success" ELSE "failed")
                             ELSE afterQ)
    /\ fsReq' = RestoreReq(using_existing, fsReq, fsReqBak)
    /\ fsReqBak' = RestoreBak(using_existing, fsReqBak)
    /\ UNCHANGED <<fsDist, aStart, aScript, using_existing, aScan, aInstalled, aRc>>
    /\ UNCHANGED <<pack_btn, auto_pack_btn, pack_bar, msgbox, status, sw_keep, jobSeq>>
    /\ UNCHANGED <<manVars, genVars, libVars>>
    /\ aKeep0' = (aKeep0 /\ apc' # "done")

BuildNext ==
    \/ ToggleKeep \/ RunAfter \/ DismissError \/ StartPack \/ StartAutoPack
    \/ M_PreClean \/ M_Pack \/ M_Finish
    \/ A_PreClean \/ A_Resolve \/ A_PipreqsInstall \/ A_PipreqsRun \/ A_Venv
    \/ A_PipUpgrade \/ A_Install \/ A_Icon \/ A_Pack \/ A_Finish

(* ------------------------------ PyInstallerPacker ---------------------- *)
SeqsUpTo(S, n) == UNION {[1 .. k -> S] : k \in 0 .. n}

Platforms == {"Windows", "Linux"}
\* the fields of a packer; "" stands for upx_dir=None
Packers ==
    [onefile : BOOLEAN, windowed : BOOLEAN, clean : BOOLEAN, debug : BOOLEAN,
     upx : BOOLEAN, upx_dir : {"", "/opt/upx"}, pyinstaller_exe : {"python"}]
\* build_cmd(script_path) with every keyword at its default; "" stands for None
NoArgs ==
    [script_path |-> "app.py", name |-> "", icon |-> "", version_file |-> "",
     add_data |-> <<>>, add_binary |-> <<>>, hidden_imports |-> <<>>,
     runtime_hooks |-> <<>>, exclude_modules |-> <<>>, key |-> "", dist_dir |-> "",
     build_dir |-> "", workpath |-> "", spec_path |-> "", extra_args |-> <<>>]
\* what a caller passes through: nothing, a fragment, or a flag build_cmd knows
Extras == {<<>>, <<"--collect-all", "pkgA">>, <<"--onefile">>}
\* the argument records of the calls examined: the single-valued options, the
\* directory overrides, the multi-valued options, and the passthrough arguments
SingleArgs ==
    {[NoArgs EXCEPT !.name = n, !.icon = i, !.version_file = v, !.key = k] :
        n \in {"", "App"}, i \in {"", "app.ico"}, v \in {"", "version.txt"},
        k \in {"", "secret"}}
PathArgs ==
    {[NoArgs EXCEPT !.dist_dir = d, !.build_dir = b, !.workpath = w, !.spec_path = sp] :
        d \in {"", "dist"}, b \in {"", "build"}, w \in {"", "work"}, sp \in {"", "."}}
ListArgs ==
    {[NoArgs EXCEPT !.hidden_imports = h, !.add_data = d,
                    !.add_binary = IF o THEN <<"lib.so;.">> ELSE <<>>,
                    !.runtime_hooks = IF o THEN <<"hook.py">> ELSE <<>>,
                    !.exclude_modules = IF o THEN <<"tkinter">> ELSE <<>>] :
        h \in SeqsUpTo({"pkgA", "pkgB"}, MaxLen), d \in SeqsUpTo({"a;b"}, MaxLen),
        o \in BOOLEAN}
ExtraArgs ==
    {[NoArgs EXCEPT !.extra_args = x, !.hidden_imports = h, !.version_file = v,
                    !.workpath = w] :
        x \in Extras, h \in {<<>>, <<"pkgA", "pkgB">>}, v \in {"", "version.txt"},
        w \in {"", "work"}}
ArgSets == SingleArgs \cup PathArgs \cup ListArgs \cup ExtraArgs

SwitchAlways(on, flag) == <<flag>>
\* if self.onefile: cmd.append("--onefile"), and the like
Switch(on, flag) == IF on THEN <<flag>> ELSE <<>>

\* if name: cmd += ["--name", name], and the like
Opt(flag, value) == IF value # "" THEN <<flag, value>> ELSE <<>>

\* if self.upx: cmd.append("--upx-dir"); if self.upx_dir: cmd.append(...)
UpxTokens(p) ==
    IF p.upx THEN <<"--upx-dir">> \o (IF p.upx_dir # "" THEN <<p.upx_dir>> ELSE <<>>)
    ELSE <<>>

VersionOptAnyPlatform(version_file, plat) == Opt("--version-file", version_file)
\* if version_file and platform.system() == "Windows"
VersionOpt(version_file, plat) ==
    IF version_file # "" /\ plat = "Windows"
    THEN <<"--version-file", version_file>> ELSE <<>>

ExtendArgFlagOnce(cmd, flag, values) ==
    IF values = <<>> THEN cmd ELSE cmd \o <<flag>> \o values
\* _extend_arg: for v in values: cmd += [flag, str(v)]
RECURSIVE ExtendArg(_, _, _)
ExtendArg(cmd, flag, values) ==
    IF values = <<>> THEN cmd
    ELSE ExtendArg(cmd \o <<flag, Head(values)>>, flag, Tail(values))

WorkpathOptsDeduplicated(build_dir, workpath) ==
    IF workpath # "" THEN Opt("--workpath", workpath) ELSE Opt("--workpath", build_dir)
\* if build_dir: cmd += ["--workpath", ...]; if workpath: cmd += ["--workpath", ...]
WorkpathOpts(build_dir, workpath) ==
    Opt("--workpath", build_dir) \o Opt("--workpath", workpath)

BaseCmdShared(exe, script) == pCmd \o <<exe, "-m", "PyInstaller", script>>
\* cmd: List[str] = [self.pyinstaller_exe, "-m", "PyInstaller", str(script_path)]
BaseCmd(exe, script) == <<exe, "-m", "PyInstaller", script>>

\* build_cmd of packer p with arguments a on platform plat
BuildCmd(p, a, plat) ==
    LET c1 == BaseCmd(p.pyinstaller_exe, a.script_path)
                \o Switch(p.onefile, "--onefile") \o Switch(p.windowed, "--noconsole")
                \o Switch(p.clean, "--clean") \o Switch(p.debug, "--debug")
                \o UpxTokens(p)
                \o Opt("--name", a.name) \o Opt("--icon", a.icon)
                \o VersionOpt(a.version_file, plat)
        c2 == ExtendArg(c1, "--add-data", a.add_data)
        c3 == ExtendArg(c2, "--add-binary", a.add_binary)
        c4 == ExtendArg(c3, "--hidden-import", a.hidden_imports)
        c5 == ExtendArg(c4, "--runtime-hook", a.runtime_hooks)
        c6 == ExtendArg(c5, "--exclude-module", a.exclude_modules)
    IN  c6 \o Opt("--key", a.key) \o Opt("--distpath", a.dist_dir)
           \o WorkpathOpts(a.build_dir, a.workpath)
           \o Opt("--specpath", a.spec_path) \o a.extra_args

NoReturn == [kind |-> "none", cmd |-> <<>>, rc |-> -1]

\* a packer nobody has called yet
CmdFresh ==
    /\ pCalls = 0 /\ pCmd = <<>> /\ pDry = FALSE /\ pRet = NoReturn /\ pRuns = 0
CmdInit ==
    /\ packer \in Packers /\ platform \in Platforms /\ pArgs \in ArgSets
    /\ CmdFresh

\* packer.build_cmd(script_path, **kwargs)
CallBuildCmd ==
    /\ pCalls < MaxCalls
    /\ pCalls' = pCalls + 1
    /\ pCmd' = BuildCmd(packer, pArgs, platform)
    /\ UNCHANGED <<packer, platform, pArgs, pDry, pRet, pRuns>>
    /\ UNCHANGED <<genVars, buildVars, uiVars, promptVars, auxVars>>

ExecutesAlways(dry_run) == TRUE
\* if dry_run: return cmd
Executes(dry_run) == ~dry_run

\* packer.pack(script_path, dry_run=..., **kwargs)
CallPack ==
    /\ pCalls < MaxCalls /\ pRet.kind = "none"
    /\ \E dry_run \in BOOLEAN, rc \in ExitCodes :
        LET cmd == BuildCmd(packer, pArgs, platform) IN
        /\ pCalls' = pCalls + 1 /\ pCmd' = cmd /\ pDry' = dry_run
        /\ IF Executes(dry_run)
           THEN /\ pRuns' = pRuns + 1
                /\ pRet' = [kind |-> "completed", cmd |-> cmd, rc |-> rc]
           ELSE /\ pRuns' = pRuns
                /\ pRet' = [kind |-> "list", cmd |-> cmd, rc |-> -1]
    /\ UNCHANGED <<packer, platform, pArgs>>
    /\ UNCHANGED <<genVars, buildVars, uiVars, promptVars, auxVars>>

CmdNext == CallBuildCmd \/ CallPack

(* ------------------------- AIconPackGUI: generation -------------------- *)
GenBtnLeftEnabled == "normal"
\* self.gen_btn.configure(state="disabled") in _start_generate
GenBtnWhileRunning == "disabled"

\* paths[0] of the j-th generation (the file name carries its timestamp)
IconPath(j) == "icon_" \o ToString(j) \o ".ico"

\* finally of _gen_thread
GenFinally(q) == Post(Post(q, "gen_btn", "normal"), "ai_stop", "-")

UiInit ==
    /\ gen_btn = "normal" /\ ai_bar = FALSE /\ gWorkers = <<>>
    /\ generated_icon = "" /\ preview_img = ""

\* _start_generate: a click on the (enabled) generate button; an empty prompt
\* only shows the modal warning
ClickGenerate ==
    /\ gen_btn = "normal" /\ ~msgbox /\ Len(gWorkers) < MaxGens
    /\ \E prompt \in {"", "a fox"} :
        IF prompt = ""
        THEN /\ msgbox' = TRUE
             /\ UNCHANGED <<gen_btn, ai_bar, gWorkers, status>>
        ELSE /\ gen_btn' = GenBtnWhileRunning /\ ai_bar' = TRUE
             /\ status' = "generating"
             /\ gWorkers' = Append(gWorkers, "generate")
             /\ UNCHANGED msgbox
    /\ UNCHANGED <<generated_icon, preview_img>>
    /\ UNCHANGED <<pack_btn, auto_pack_btn, pack_bar, sw_keep, afterQ, jobSeq>>
    /\ UNCHANGED <<fsVars, manVars, autoVars, genVars, cmdVars, promptVars, auxVars>>

\* _gen_thread j: self.icon_gen.generate(...) returns the paths or raises
G_Generate(j) ==
    /\ j \in DOMAIN gWorkers /\ gWorkers[j] = "generate"
    /\ \E out \in {"returned", "raised"} :
        IF out = "returned"
        THEN /\ gWorkers' = [gWorkers EXCEPT ![j] = "preview"]
             /\ generated_icon' = IconPath(j)
             /\ UNCHANGED afterQ
        ELSE /\ gWorkers' = [gWorkers EXCEPT ![j] = "done"]
             /\ afterQ' = GenFinally(Post(afterQ, "status", "gen_failed"))
             /\ UNCHANGED generated_icon
    /\ UNCHANGED <<pack_btn, auto_pack_btn, pack_bar, msgbox, status, sw_keep, jobSeq>>
    /\ UNCHANGED <<gen_btn, ai_bar, preview_img>>
    /\ UNCHANGED <<fsVars, manVars, autoVars, genVars, cmdVars, promptVars, auxVars>>

\* _gen_thread j: the first path is opened for the preview (Image.open can
\* raise), the preview or the failure status is posted, then finally
G_Preview(j) ==
    /\ j \in DOMAIN gWorkers /\ gWorkers[j] = "preview"
    /\ \E opened \in BOOLEAN :
        afterQ' = GenFinally(IF opened THEN Post(afterQ, "preview", generated_icon)
                             ELSE Post(afterQ, "status", "gen_failed"))
    /\ gWorkers' = [gWorkers EXCEPT ![j] = "done"]
    /\ UNCHANGED <<pack_btn, auto_pack_btn, pack_bar, msgbox, status, sw_keep, jobSeq>>
    /\ UNCHANGED <<gen_btn, ai_bar, generated_icon, preview_img>>
    /\ UNCHANGED <<fsVars, manVars, autoVars, genVars, cmdVars, promptVars, auxVars>>

UiNext ==
    \/ ClickGenerate \/ RunAfter \/ DismissError
    \/ \E j \in 1 .. MaxGens : G_Generate(j)
    \/ \E j \in 1 .. MaxGens : G_Preview(j)

(* ------------------- IconGenerator.generate: the prompt ---------------- *)
\* the replacement field of the templates
SLOT == "{prompt}"
NoTemplates == [name \in {} |-> <<>>]
\* self.templates: none, one, or two templates, each with one field
TemplateSets ==
    {NoTemplates,
     [name \in {"flat"} |-> <<"flat icon of", SLOT, "on white">>],
     [name \in {"flat", "neon"} |->
         IF name = "flat" THEN <<"flat icon of", SLOT, "on white">>
         ELSE <<SLOT, "in neon">>]}
\* style: "" stands for None
Styles == {"", "flat", "neon", "retro"}
Prompts == {<<"a fox">>, <<"a {red} fox">>}
Keywords == {"minimal", "blue"}

TemplateGetNoDefault(t, style) == IF style \in DOMAIN t THEN t[style] ELSE <<>>
\* self.templates.get(style, "{prompt}")
TemplateGet(t, style) == IF style \in DOMAIN t THEN t[style] ELSE <<SLOT>>

\* template.format(prompt=prompt)
RECURSIVE Format(_, _)
Format(t, prompt) ==
    IF t = <<>> THEN <<>>
    ELSE (IF Head(t) = SLOT THEN prompt ELSE <<Head(t)>>) \o Format(Tail(t), prompt)

\* sep.join(xs)
RECURSIVE Join(_, _)
Join(sep, xs) ==
    IF xs = <<>> THEN <<>>
    ELSE IF Len(xs) = 1 THEN xs
    ELSE <<Head(xs), sep>> \o Join(sep, Tail(xs))

\* lines 220-226
FullPrompt(t, style, prompt, kws) ==
    LET base == IF style # "" THEN Format(TemplateGet(t, style), prompt) ELSE prompt
    IN  IF kws # <<>> THEN base \o <<", ">> \o Join(", ", kws) ELSE base

\* the names of a dict built from a mapping, in the order of the mapping
TemplateNames == <<"flat", "neon", "retro">>
KeysOf(t) == LET Has(name) == name \in DOMAIN t IN SelectSeq(TemplateNames, Has)

\* self.templates = dict(prompt_templates or {})
TemplatesInit == templates \in TemplateSets /\ tOrder = KeysOf(templates)

PromptInit ==
    /\ TemplatesInit /\ pStyle \in Styles /\ pPrompt \in Prompts
    /\ pKeywords \in SeqsUpTo(Keywords, MaxLen)
    /\ full_prompt = <<>>

\* generate(prompt, style=..., extra_keywords=...) assembles the prompt
AssemblePrompt ==
    /\ full_prompt = <<>>
    /\ full_prompt' = FullPrompt(templates, pStyle, pPrompt, pKeywords)
    /\ UNCHANGED <<templates, tOrder, pStyle, pPrompt, pKeywords>>
    /\ UNCHANGED <<genVars, buildVars, uiVars, cmdVars, auxVars>>

PromptNext == AssemblePrompt

(* ------------------- IconGenerator: template management ---------------- *)
\* what a caller registers: a template with the field, and one without it
\* (add_template does not check for the field)
NewTemplates == {<<SLOT, "as a badge">>, <<"plain">>}
NoAdd == [name |-> "", template |-> <<>>, overwrite |-> FALSE, raised |-> FALSE]
TplFresh == tCalls = 0 /\ tLast = NoAdd

RejectsNever(t, name, overwrite) == FALSE
\* if name in self.templates and not overwrite: raise ValueError
Rejects(t, name, overwrite) == name \in DOMAIN t /\ ~overwrite

\* self.templates[name] = template: the value of the name
SetItem(t, name, template) ==
    [n \in DOMAIN t \cup {name} |-> IF n = name THEN template ELSE t[n]]
\* self.templates[name] = template: a new name goes to the end, a known name
\* keeps its place
SetItemOrder(order, name) ==
    IF \E i \in DOMAIN order : order[i] = name THEN order ELSE Append(order, name)

\* list(self.templates)
list_templates == tOrder

\* add_template(name, template, overwrite=...)
AddTemplate ==
    /\ tCalls < MaxAdds
    /\ tCalls' = tCalls + 1
    /\ \E name \in {"flat", "neon", "retro"}, template \in NewTemplates,
          overwrite \in BOOLEAN :
        /\ tLast' = [name |-> name, template |-> template, overwrite |-> overwrite,
                     raised |-> Rejects(templates, name, overwrite)]
        /\ IF Rejects(templates, name, overwrite)
           THEN UNCHANGED <<templates, tOrder>>
           ELSE /\ templates' = SetItem(templates, name, template)
                /\ tOrder' = SetItemOrder(tOrder, name)
    /\ UNCHANGED <<pStyle, pPrompt, pKeywords, full_prompt>>
    /\ UNCHANGED <<genVars, buildVars, uiVars, cmdVars, depVars>>

TplNext == AddTemplate

(* ------------------- AIconPackGUI._detect_dependencies ----------------- *)
\* sys.stdlib_module_names (the names that occur in the scripts examined)
stdlib == {"os", "sys", "json"}
\* alias_map (the entries that occur in the scripts examined)
alias_map == [m \in {"PIL", "yaml", "cv2"} |->
                 CASE m = "PIL" -> "Pillow" [] m = "yaml" -> "PyYAML"
                   [] OTHER -> "opencv-python"]
\* the names of the model in the order sorted() gives them (by code point)
NameOrder ==
    <<"PIL", "Pillow", "PyYAML", "attr", "attrs", "cv2", "json", "opencv-python",
      "os", "requests", "sys", "yaml">>

\* the import statements of a script: a module is the sequence of the parts of
\* its dotted name; a from-import has one module, or none (from . import x)
Import(names) == [kind |-> "import", names |-> names, level |-> 0]
ImportFrom(names, level) == [kind |-> "from", names |-> names, level |-> level]
Statements ==
    {Import(<<<<"os", "path">>>>), Import(<<<<"PIL", "Image">>>>),
     Import(<<<<"requests">>, <<"yaml">>>>), Import(<<<<"attr">>>>),
     ImportFrom(<<<<"attr", "validators">>>>, 0), ImportFrom(<<<<"json">>>>, 0),
     ImportFrom(<<>>, 1), ImportFrom(<<<<"cv2">>>>, 1)}
\* packages_distributions() of the running interpreter: top-level module
\* name -> the distributions that provide it
NoDists == [m \in {} |-> {}]
Envs ==
    {NoDists,
     [m \in {"attr", "requests", "PIL"} |->
         CASE m = "attr" -> {"attrs"} [] m = "requests" -> {"requests"}
           [] OTHER -> {"Pillow"}]}

\* alias.name.split(".")[0], node.module.split(".")[0]
Root(module) == Head(module)

\* the roots one statement adds to pkgs (lines 1307-1315)
StmtRoots(st) ==
    IF st.kind = "import"
    THEN {Root(st.names[i]) : i \in DOMAIN st.names} \ stdlib
    ELSE IF st.level = 0 /\ st.names # <<>>
         THEN {Root(st.names[1])} \ stdlib
         ELSE {}

AliasGetIdentity(m) == m
\* alias_map.get(m, m)
AliasGet(m) == IF m \in DOMAIN alias_map THEN alias_map[m] ELSE m

\* lines 1318-1322: the mapped names, and for each of them that is a top-level
\* module of the environment the distributions that provide it
Mapped(pkgs, env) ==
    LET mapped == {AliasGet(m) : m \in pkgs}
    IN  mapped \cup UNION {env[mod] : mod \in mapped \cap DOMAIN env}

\* sorted(names)
Sorted(names) == LET In(x) == x \in names IN SelectSeq(NameOrder, In)

NoManifest == [exists |-> FALSE, text |-> <<>>]
DepFresh == requirements = <<>> /\ dManifest = NoManifest
DepInit ==
    /\ dScript \in SeqsUpTo(Statements, MaxStmts) /\ dEnv \in Envs
    /\ DepFresh

\* self._detect_dependencies(script)
DetectDependencies ==
    /\ ~dManifest.exists
    /\ LET pkgs == UNION {StmtRoots(dScript[i]) : i \in DOMAIN dScript}
           reqs == Sorted(Mapped(pkgs, dEnv))
       IN  /\ requirements' = reqs
           /\ dManifest' = [exists |-> TRUE, text |-> Join("\n", reqs)]
    /\ UNCHANGED <<dScript, dEnv>>
    /\ UNCHANGED <<genVars, buildVars, uiVars, cmdVars, promptVars, tplVars>>

DepNext == DetectDependencies

\* the state after construction of the GUI: no packer exists, no prompt has
\* been assembled, no template added, no dependency scan made
Init ==
    /\ GenInit /\ BuildInit /\ UiInit /\ CmdFresh /\ full_prompt = <<>>
    /\ TplFresh /\ DepFresh

\* no PyInstallerPacker constructed, no call prepared
Absent == "none"
\* the packer and the prompt assembly left alone
CmdIdle == packer = Absent /\ platform = "Linux" /\ pArgs = Absent
PromptOff == pStyle = "" /\ pPrompt = <<"a fox">> /\ pKeywords = <<>>
PromptIdle == templates = NoTemplates /\ tOrder = <<>> /\ PromptOff
\* no script given to the dependency scan
DepIdle == dScript = <<>> /\ dEnv = NoDists
\* the generator with its key, a clean project directory
Quiet == api_key /\ ~fsBuild /\ ~fsReq.exists

\* calls of IconGenerator.generate, the project directory left alone
InitGen == CmdIdle /\ DepIdle /\ PromptIdle /\ Init /\ ~fsBuild /\ ~fsReq.exists
SpecGen == InitGen /\ [][GenNext]_vars

\* the packaging page of the GUI with its two workers, the generator left alone
InitBuild == CmdIdle /\ DepIdle /\ PromptIdle /\ Init /\ api_key
SpecBuild == InitBuild /\ [][BuildNext]_vars

\* the generation page of the GUI with its workers
InitUi == CmdIdle /\ DepIdle /\ PromptIdle /\ Init /\ Quiet
SpecUi == InitUi /\ [][UiNext]_vars

\* build_cmd and pack of one packer
InitCmd == PromptIdle /\ DepIdle /\ CmdInit /\ Init /\ Quiet
SpecCmd == InitCmd /\ [][CmdNext]_vars

\* the prompt assembly of one generate call
InitPrompt == CmdIdle /\ DepIdle /\ PromptInit /\ Init /\ Quiet
SpecPrompt == InitPrompt /\ [][PromptNext]_vars

\* add_template calls on one generator
InitTpl == CmdIdle /\ DepIdle /\ PromptOff /\ TemplatesInit /\ Init /\ Quiet
SpecTpl == InitTpl /\ [][TplNext]_vars

\* one call of _detect_dependencies
InitDeps == CmdIdle /\ PromptIdle /\ DepInit /\ Init /\ Quiet
SpecDeps == InitDeps /\ [][DepNext]_vars

(* ------------------------------ packaging: claims ---------------------- *)
Running(pc) == pc \notin {"idle", "done"}
Events(trace) == {trace[i] : i \in DOMAIN trace}
OwnVenvPresent == fsVenv.st # "absent" /\ fsVenv.owner = aJob

\* C4: an auto-dependency job that created its environment has removed it,
\* exactly once, when it reaches its terminal state - whether bundling succeeded,
\* failed, or an install stage failed. (Stated for a job that ran alone.)
C4_TeardownOnce ==
    (apc = "done" /\ mpc = "idle" /\ "venv" \in Events(aTrace)) =>
        (aTeardowns = 1 /\ ~OwnVenvPresent)

\* C5: a job whose final status has been posted has written pack_log.txt itself
\* before that, in the manual and in the auto-dependency pipeline.
C5_LogBeforeStatus ==
    /\ (mFinal # "none" /\ apc = "idle") => (mLogWritten /\ fsLog = mJob)
    /\ (aFinal # "none" /\ mpc = "idle") => (aLogWritten /\ fsLog = aJob)

\* C6: the manual worker and the auto-dependency worker are never both between
\* their start and their terminal state.
C6_OneJobAtATime == ~(Running(mpc) /\ Running(apc))

\* C7: a worker that has ended has posted a final status (success, failure or
\* exception), whatever failed.
C7_StatusReported ==
    /\ (mpc = "done" /\ apc = "idle") => mFinal # "none"
    /\ (apc = "done" /\ mpc = "idle") => aFinal # "none"

FailEvents == {"scan_tool_fail", "scan_fail", "venv_fail", "pip_upgrade_fail",
               "install_fail"}

\* C9: a failed stage of the auto-dependency pipeline (scan, environment
\* creation, installer upgrade, installation) is the last stage of the job: the
\* bundling tool is not run, the keep-only-executable cleanup is not run, the
\* worker has ended without the success status, and a nonzero exit is reported
\* with the exception status.
C9_FailureStopsPipeline ==
    \A i \in DOMAIN aTrace :
        aTrace[i] \in FailEvents =>
            /\ i = Len(aTrace)
            /\ apc = "done" /\ aRc = -1 /\ aTeardowns = 0 /\ aKeep = "unread"
            /\ aFinal \notin {"success", "failed"}
            /\ aExc = "CalledProcessError" => aFinal = "exception"

C9_Witness ==
    /\ apc = "done" /\ Len(aTrace) >= 5
    /\ aTrace[Len(aTrace)] = "install_fail" /\ aFinal = "exception"

\* C10: after a bundling with exit code 0 and the keep-only-executable switch
\* on, the ended job has left no build/ and no <app_name>.spec and has kept
\* dist/, in both pipelines; after a failed bundling or with the switch off no
\* cleanup ran. (Each stated for a job that ran alone.)
C10_KeepOnlyExecutable ==
    /\ (mpc = "done" /\ apc = "idle" /\ mRc = 0 /\ mKeep = "on") =>
          (~fsBuild /\ ~fsSpec /\ fsDist)
    /\ (apc = "done" /\ mpc = "idle" /\ aRc = 0 /\ aKeep = "on" /\ ~aEscaped) =>
          (~fsBuild /\ ~fsSpec /\ fsDist)
    /\ (mRc = 1 \/ mKeep = "off") => "clean" \notin Events(mTrace)
    /\ (aRc = 1 \/ aKeep = "off") => "clean" \notin Events(aTrace)

OnOff(b) == IF b THEN "on" ELSE "off"
ScanEvents == {"scan_tool", "scan_tool_fail", "scan", "scan_fail"}

\* C11: an auto-dependency job that found requirements.txt when it was started
\* runs no dependency-resolution step and ends - on success and on every
\* failure path - with the file holding what it held at the start.
C11_ManifestReused ==
    (apc = "done" /\ aReq0.exists) =>
        /\ Events(aTrace) \cap ScanEvents = {}
        /\ fsReq = aReq0

\* C12: whenever the auto-dependency pipeline has run the bundling tool with
\* the environment's interpreter, the installer was upgraded first and then the
\* bundling tool itself was installed into the environment with the manifest,
\* for a generated and for a reused manifest.
C12_ToolInstalledBeforeBundling ==
    \A i \in DOMAIN aTrace :
        aTrace[i] \in {"pack_rc0", "pack_rc1"} =>
            /\ \E j, k \in 1 .. (i - 1) :
                   j < k /\ aTrace[j] = "pip_upgrade" /\ aTrace[k] = "install"
            /\ "pyinstaller" \in aInstalled

\* C13: the keep-only-executable decision of a job is the one the switch
\* showed when the job was started, whatever the user did to the switch while
\* the worker ran, in both pipelines.
C13_OptionsSnapshot ==
    [][/\ (mpc = "after_pack" /\ mKeep' # mKeep) => mKeep' = OnOff(mKeep0)
       /\ (apc = "after_pack" /\ aKeep' # aKeep) => aKeep' = OnOff(aKeep0)]_vars

\* C14: an auto-dependency job whose bundling exited nonzero ends with
\* pack_log.txt written by it, the failure status posted (never the success
\* status) and no exception leaving the worker. (Stated for a job that ran
\* alone.)
C14_FailedBundleReported ==
    (apc = "done" /\ aRc = 1 /\ mpc = "idle") =>
        /\ aLogWritten /\ fsLog = aJob
        /\ aFinal = "failed" /\ ~aEscaped

\* C15: a click on either start button while the script field is empty or
\* names no existing file only shows the error dialog: no worker is started,
\* nothing is pre-cleaned or otherwise changed on disk, and the buttons, the
\* progress bar and the status stay as they were; a worker is only ever started
\* on an existing script.
C15_InvalidScriptRejected ==
    [][/\ (~msgbox /\ msgbox') =>
              UNCHANGED <<pack_btn, auto_pack_btn, pack_bar, status, sw_keep, afterQ,
                          jobSeq, fsVars, manVars, autoVars>>
       /\ (mpc # "preclean" /\ mpc' = "preclean") =>
              (mScript' # "" /\ mScript' \in ExistingPaths)
       /\ (apc # "preclean" /\ apc' = "preclean") =>
              (aPath' # "" /\ aPath' \in ExistingPaths)]_vars

C15_Witness ==
    /\ msgbox /\ Running(apc) /\ mpc = "idle" /\ pack_btn = "normal"
    /\ auto_pack_btn = "disabled" /\ pack_bar

(* ------------------------------ generate: claims ----------------------- *)
TransientCalls ==
    Cardinality({i \in DOMAIN gTrace :
                    gTrace[i].ev = "call" /\ IsTransient(gTrace[i].out)})

\* the last pass of the for loop ran all its calls without an error
PassSucceeded ==
    /\ batches >= 1 /\ Len(gTrace) >= batches
    /\ \A i \in (Len(gTrace) - batches + 1) .. Len(gTrace) :
           gTrace[i].ev = "call" /\ gTrace[i].out = "ok"

RequestedLength == IF gModel = "dall-e-3" THEN gN ELSE Min(Max(gN, 1), MaxBatch)

\* C1: a generate that returns, returns exactly the requested number of elements
\* (n for dall-e-3, min(max(n,1),10) otherwise), whatever transient failures and
\* successes preceded the return.
C1_ResultLength == gpc = "returned" => Len(results) = RequestedLength

\* C2: transient failures on the first K <= max_retries passes followed by a pass
\* that succeeds lead to the result (only a download can still fail); the
\* (max_retries+1)-th transient failure raises the retry-exhausted RuntimeError
\* wrapping that last error, and no further call or wait follows it.
C2_RetryBudget ==
    /\ TransientCalls <= max_retries + 1
    /\ TransientCalls = max_retries + 1 =>
          /\ gpc = "raised" /\ gErr = "RuntimeError:RequestFailed"
          /\ IsTransient(gCause) /\ gTrace[Len(gTrace)].out = gCause
    /\ gErr = "RuntimeError:RequestFailed" => TransientCalls = max_retries + 1
    /\ PassSucceeded =>
          \/ gpc \in {"materialize", "returned"}
          \/ gpc = "raised" /\ gErr = "DownloadError"
    /\ gpc = "returned" => PassSucceeded \/ batches = 0

C2_Witness ==
    gpc = "returned" /\ TransientCalls = max_retries /\ Len(results) >= 1

NoCallFailed == \A i \in DOMAIN gTrace : gTrace[i].ev = "call" /\ gTrace[i].out = "ok"
CallsDone == gpc \in {"materialize", "returned"} \/ gErr = "DownloadError"

\* C16: a generate with return_format pil, bytes or b64 changes nothing on
\* disk: it writes no file and creates no output directory.
C16_MemoryFormatsLeaveDiskAlone ==
    (gpc \in {"returned", "raised"} /\ gFormat \in {"pil", "bytes", "b64"}) =>
        (~gDirMade /\ gFiles = {})

\* C17: a generate without a credential ends with the configuration error
\* before any remote call, download or write; with a credential - given at
\* construction or set afterwards - generate has its client and does not raise
\* that error.
C17_CredentialChecked ==
    /\ gErr = "RuntimeError:NoApiKey" =>
          /\ gpc = "raised" /\ ~api_key /\ ~client
          /\ gCalls = 0 /\ gTrace = <<>> /\ results = <<>>
          /\ ~gDirMade /\ gFiles = {}
    /\ (gpc # "idle" /\ ~api_key) => gErr = "RuntimeError:NoApiKey"
    /\ (gpc # "idle" /\ api_key) => (client /\ gErr # "RuntimeError:NoApiKey")

C17_Witness ==
    gpc = "raised" /\ gErr = "RuntimeError:NoApiKey" /\ gN >= 1 /\ gFormat = "path"

\* C18: when no remote call fails, dall-e-3 is called exactly n times for one
\* image each, and any other model exactly once for min(max(n, 1), 10) images.
C18_CallPlan ==
    (CallsDone /\ NoCallFailed) =>
        IF gModel = "dall-e-3"
        THEN Len(gTrace) = gN /\ \A i \in DOMAIN gTrace : gTrace[i].n = 1
        ELSE Len(gTrace) = 1 /\ gTrace[1].n = Min(Max(gN, 1), MaxBatch)

C18_Witness ==
    /\ gpc = "returned" /\ gModel = "dall-e-2" /\ gN = MaxBatch + 1
    /\ Len(gTrace) = 1 /\ gTrace[1].n = MaxBatch /\ Len(results) = MaxBatch

\* C19: the i-th reference the provider returned is the i-th element of the
\* result; in path mode with n > 1 it is written to <prefix>_<i>.png, so the
\* names of one call are pairwise distinct and their suffixes are 1..n.
C19_OrderAndNames ==
    gpc = "returned" =>
        /\ Len(results) = Len(all_data)
        /\ \A i \in DOMAIN results : results[i].ref = all_data[i]
        /\ (gFormat = "path" /\ gN > 1) =>
              /\ \A i \in DOMAIN results : results[i].name = i
              /\ {results[i].name : i \in DOMAIN results} = 1 .. RequestedLength

\* C20: for dall-e-3 a resolution outside 1024x1024, 1024x1792, 1792x1024 is
\* sent as 1024x1024 in every remote call and ends no generate before its
\* first call; a resolution of that set, and any resolution for another model,
\* is sent as given.
C20_SizeCoercion ==
    /\ \A i \in DOMAIN gTrace :
          gTrace[i].ev = "call" =>
              gTrace[i].size =
                  IF gModel = "dall-e-3"
                     /\ gSize \notin {"1024x1024", "1024x1792", "1792x1024"}
                  THEN "1024x1024" ELSE gSize
    /\ (gpc = "raised" /\ gCalls = 0) => gErr = "RuntimeError:NoApiKey"

C20_Witness ==
    /\ gModel = "dall-e-3" /\ gSize = "512x512" /\ gpc = "returned"
    /\ Len(gTrace) >= 2 /\ gTrace[Len(gTrace)].size = "1024x1024"

(* ---------------------- claims about PyInstallerPacker ----------------- *)
\* number of elements of seq equal to x
Count(seq, x) == Cardinality({i \in DOMAIN seq : seq[i] = x})

\* the elements that directly follow an occurrence of flag, in order
RECURSIVE ValuesAfter(_, _)
ValuesAfter(cmd, flag) ==
    IF Len(cmd) < 2 THEN <<>>
    ELSE IF Head(cmd) = flag
         THEN <<cmd[2]>> \o ValuesAfter(Tail(Tail(cmd)), flag)
         ELSE ValuesAfter(Tail(cmd), flag)

\* the boolean fields of the packer with their flags
Switches ==
    {<<"onefile", "--onefile">>, <<"windowed", "--noconsole">>,
     <<"clean", "--clean">>, <<"debug", "--debug">>, <<"upx", "--upx-dir">>}
\* the multi-valued arguments with their flags
ListOptions ==
    {<<"add_data", "--add-data">>, <<"add_binary", "--add-binary">>,
     <<"hidden_imports", "--hidden-import">>, <<"runtime_hooks", "--runtime-hook">>,
     <<"exclude_modules", "--exclude-module">>}
\* some call has returned, pCmd is the list it built
Built == pCalls >= 1

\* C21 as stated: a boolean option's flag occurs exactly once in the
\* result when the option is true and not at all when it is false, whatever
\* the other options and the passthrough arguments are.
C21_FlagOncePerSwitch ==
    Built => \A sw \in Switches :
        Count(pCmd, sw[2]) = IF packer[sw[1]] THEN 1 ELSE 0

\* C21: a boolean option contributes its flag exactly once when true and
\* not at all when false; the only other occurrences of the flag are those
\* the caller put into the passthrough arguments, which are appended verbatim.
C21_FlagOncePlusPassthrough ==
    Built => \A sw \in Switches :
        Count(pCmd, sw[2]) =
            (IF packer[sw[1]] THEN 1 ELSE 0) + Count(pArgs.extra_args, sw[2])

C21_Witness ==
    /\ Built /\ packer.onefile /\ ~packer.debug
    /\ pArgs.extra_args = <<"--onefile">> /\ pArgs.hidden_imports # <<>>
    /\ Count(pCmd, "--onefile") = 2 /\ Count(pCmd, "--debug") = 0

\* C22: a multi-valued option given N values yields exactly N occurrences of
\* its flag, each directly followed by its value, in input order; with
\* single-file on, console hidden and hidden imports pkgA, pkgB the list holds
\* --onefile, --noconsole, --hidden-import pkgA --hidden-import pkgB in that order.
C22_ListOptionsInOrder ==
    Built =>
        /\ \A o \in ListOptions :
            /\ Count(pCmd, o[2]) = Len(pArgs[o[1]])
            /\ ValuesAfter(pCmd, o[2]) = pArgs[o[1]]
        /\ (packer.onefile /\ packer.windowed
                /\ pArgs.hidden_imports = <<"pkgA", "pkgB">>)
            => \E i, j, k \in DOMAIN pCmd :
                /\ i < j /\ j < k /\ k + 3 \in DOMAIN pCmd
                /\ pCmd[i] = "--onefile" /\ pCmd[j] = "--noconsole"
                /\ SubSeq(pCmd, k, k + 3) =
                       <<"--hidden-import", "pkgA", "--hidden-import", "pkgB">>

C22_Witness ==
    /\ Built /\ packer.onefile /\ packer.windowed
    /\ pArgs.hidden_imports = <<"pkgB", "pkgA">> /\ pArgs.add_data = <<"a;b", "a;b">>
    /\ ValuesAfter(pCmd, "--hidden-import") = <<"pkgB", "pkgA">>
    /\ Count(pCmd, "--add-data") = 2

\* C23: build_dir and workpath are not deduplicated: with both supplied the
\* list holds two --workpath pairs, build_dir's first and workpath's last; with
\* one supplied it holds exactly one pair.
C23_WorkpathPairs ==
    Built =>
        LET b == pArgs.build_dir
            w == pArgs.workpath
            pairs == ValuesAfter(pCmd, "--workpath")
        IN  /\ Count(pCmd, "--workpath") = Len(pairs)
            /\ (b # "" /\ w # "") => pairs = <<b, w>>
            /\ (b # "" /\ w = "") => pairs = <<b>>
            /\ (b = "" /\ w # "") => pairs = <<w>>
            /\ (b = "" /\ w = "") => pairs = <<>>

C23_Witness ==
    /\ Built /\ pArgs.build_dir = "build" /\ pArgs.workpath = "work"
    /\ ValuesAfter(pCmd, "--workpath") = <<"build", "work">>

C27_VersionFileOnWindowsOnly ==
    Built =>
        LET v == pArgs.version_file
            gated == v # "" /\ platform = "Windows"
        IN  /\ gated => ValuesAfter(pCmd, "--version-file") = <<v>>
                        /\ Count(pCmd, "--version-file") = 1
            /\ ~gated => /\ Count(pCmd, "--version-file") = 0
                         /\ pCmd = BuildCmd(packer, [pArgs EXCEPT !.version_file = ""],
                                            platform)

C27_Witness ==
    /\ Built /\ pArgs.version_file = "version.txt" /\ platform = "Linux"
    /\ Count(pCmd, "--version-file") = 0 /\ Count(pCmd, "--onefile") = 1

\* C29: pack with dry_run=True starts no subprocess and returns the list of
\* build_cmd; with dry_run=False it runs that list exactly once and returns
\* the exit code, zero or not, without running it again.
C29_PackRunsOnceOrNever ==
    /\ pRet.kind = "none" => pRuns = 0
    /\ pRet.kind = "list" =>
        /\ pDry /\ pRuns = 0
        /\ pRet.cmd = BuildCmd(packer, pArgs, platform)
    /\ pRet.kind = "completed" =>
        /\ ~pDry /\ pRuns = 1 /\ pRet.rc \in ExitCodes
        /\ pRet.cmd = BuildCmd(packer, pArgs, platform)

C29_Witness ==
    /\ pRet.kind = "completed" /\ pRet.rc = 1 /\ pRuns = 1 /\ pCalls = MaxCalls

(* ---------------------- claims about the generation page --------------- *)
\* the generation workers that have not finished
GenRunning == {j \in DOMAIN gWorkers : gWorkers[j] # "done"}

\* C24: at most one generation job runs at any time: while a worker has not
\* finished the generate button is disabled, so no second one can be started;
\* once the worker has finished and its callbacks have run the button is
\* enabled again.
C24_OneGenerationAtATime ==
    /\ Cardinality(GenRunning) <= 1
    /\ GenRunning # {} => gen_btn = "disabled"
    /\ (GenRunning = {} /\ afterQ = <<>>) => gen_btn = "normal"

C24_Witness ==
    /\ Len(gWorkers) = 2 /\ gWorkers[1] = "done" /\ gWorkers[2] = "preview"
    /\ gen_btn = "disabled" /\ afterQ # <<>>

(* ---------------------- claims about the retry loop -------------------- *)
IsSleep(e) == e.ev = "sleep"
\* the waits of the generate call so far, in order
Sleeps == SelectSeq(gTrace, IsSleep)

\* C25: the wait before the k-th retry is 2^k seconds, each twice the one
\* before; there are at most max_retries waits and at most max_retries + 1
\* passes of the call sequence, and a generate that has not ended can always
\* take a step, so every generate ends.
C25_BackoffBounded ==
    /\ Len(Sleeps) <= max_retries
    /\ \A k \in DOMAIN Sleeps :
        /\ Sleeps[k].n = 2 ^ k
        /\ k > 1 => Sleeps[k].n = 2 * Sleeps[k - 1].n
    /\ retries <= max_retries + 1
    /\ TransientCalls <= max_retries + 1
    /\ gCalls <= (max_retries + 1) * Max(batches, 1)
    /\ gpc \in {"calling", "sleeping", "materialize"} =>
           ENABLED (RemoteCall \/ BackoffSleep \/ Materialize)

C25_Witness ==
    /\ gpc = "returned" /\ Len(Sleeps) = max_retries
    /\ Sleeps[Len(Sleeps)].n = 8 /\ TransientCalls = max_retries

(* ---------------------- claims about the prompt ------------------------ *)
\* the prompt has been assembled (no assembled prompt is empty)
Assembled == full_prompt # <<>>
\* the template t with prompt put in place of its one slot
Filled(t, prompt) ==
    LET i == CHOOSE i \in DOMAIN t : t[i] = SLOT
    IN  SubSeq(t, 1, i - 1) \o prompt \o SubSeq(t, i + 1, Len(t))
\* ", " and the keywords joined with ", ": every keyword preceded by ", "
KeywordSuffix(kws) ==
    [i \in 1 .. 2 * Len(kws) |-> IF i % 2 = 1 THEN ", " ELSE kws[i \div 2]]

\* C28: the prompt sent is the template with the user prompt in its slot when
\* a template key is supplied and known, the raw user prompt when no key is
\* supplied or the key is unknown, followed by ", " and the keywords joined
\* with ", " when keywords are supplied and by nothing otherwise.
C28_PromptAssembly ==
    Assembled =>
        LET base == IF pStyle # "" /\ pStyle \in DOMAIN templates
                    THEN Filled(templates[pStyle], pPrompt) ELSE pPrompt
        IN  /\ full_prompt = base \o KeywordSuffix(pKeywords)
            /\ pKeywords = <<>> => full_prompt = base

C28_Witness ==
    /\ Assembled /\ pStyle = "flat" /\ pStyle \in DOMAIN templates
    /\ pPrompt = <<"a {red} fox">> /\ pKeywords = <<"minimal", "blue">>
    /\ full_prompt = <<"flat icon of", "a {red} fox", "on white", ", ", "minimal",
                       ", ", "blue">>

(* ---------------------- claims about the manual pipeline --------------- *)
\* C30: a manual job whose bundling exited with code 0 has written
\* pack_log.txt and reported the success status, with the keep-only-executable
\* switch on or off; the exception status is reported only when the bundling
\* step could not be run. (Stated for a job that ran alone and whose log
\* write did not fail.)
C30_ExitZeroReportsSuccess ==
    ("log_raise" \notin Events(mTrace) /\ apc = "idle") =>
        /\ (mpc = "done" /\ mRc = 0) => (mLogWritten /\ mFinal = "success")
        /\ mFinal = "exception" => "pack_raise" \in Events(mTrace)

(* ---------------------- claims about flags and their values ------------ *)
\* the flags of build_cmd that take a value
ValueFlags ==
    {"--upx-dir", "--name", "--icon", "--version-file", "--add-data", "--add-binary",
     "--hidden-import", "--runtime-hook", "--exclude-module", "--key", "--distpath",
     "--workpath", "--specpath"}
\* every token of a list that is a flag
FlagTokens ==
    ValueFlags \cup {"--onefile", "--noconsole", "--clean", "--debug", "--collect-all"}
\* the part of the list build_cmd emits itself, before the passthrough arguments
OwnPart == SubSeq(pCmd, 1, Len(pCmd) - Len(pArgs.extra_args))

\* C31: every value-taking flag that build_cmd emits is directly followed by
\* its value and never by another flag or by the end of the list, for every
\* combination of options, UPX enabled without a UPX directory included.
C31_ValueFlagsHaveValues ==
    Built => \A i \in DOMAIN OwnPart :
        OwnPart[i] \in ValueFlags =>
            /\ i + 1 \in DOMAIN OwnPart
            /\ OwnPart[i + 1] \notin FlagTokens

(* ---------------------- claims about the workers' buttons -------------- *)
\* no callback is waiting for the main loop
CallbacksRun == afterQ = <<>>

\* C32: every worker that has ended has re-enabled the button that started it
\* and stopped its progress indicator once its callbacks have run, on every
\* path: success, reported failure, or an error raised anywhere in the worker,
\* the pre-clean step included.
C32_ButtonsReenabled ==
    CallbacksRun =>
        /\ mpc = "done" => pack_btn = "normal"
        /\ apc = "done" => auto_pack_btn = "normal"
        /\ (~Running(mpc) /\ ~Running(apc)) => ~pack_bar
        /\ (gWorkers # <<>> /\ GenRunning = {}) => (gen_btn = "normal" /\ ~ai_bar)

(* ---------------------- claims about the order of the stages ----------- *)
\* the stage an entry of the auto-dependency trace belongs to
Stage(ev) ==
    CASE ev \in {"preclean", "preclean_raise"} -> "preclean"
      [] ev \in {"reuse"} -> "reuse"
      [] ev \in {"scan_tool", "scan_tool_fail"} -> "scan_tool"
      [] ev \in {"scan", "scan_fail"} -> "scan"
      [] ev \in {"venv", "venv_fail"} -> "venv"
      [] ev \in {"pip_upgrade", "pip_upgrade_fail"} -> "pip_upgrade"
      [] ev \in {"install", "install_fail"} -> "install"
      [] ev \in {"icon", "icon_raise"} -> "icon"
      [] ev \in {"pack_rc0", "pack_rc1", "pack_raise"} -> "pack"
      [] ev \in {"clean", "clean_raise"} -> "clean"
      [] ev \in {"log", "log_raise"} -> "log"
      [] OTHER -> "status"
\* the position of a stage in the pipeline; resolution is the scan or the reuse
StageRank ==
    [preclean |-> 1, scan_tool |-> 2, scan |-> 3, reuse |-> 3, venv |-> 4,
     pip_upgrade |-> 5, install |-> 6, icon |-> 7, pack |-> 8, clean |-> 9,
     log |-> 10, status |-> 11]
\* the completed entries a stage may directly follow (the icon conversion and
\* the cleanup are optional; a bundling that exited nonzero has completed)
StagePred ==
    [preclean |-> {}, scan_tool |-> {"preclean"}, scan |-> {"scan_tool"},
     reuse |-> {"preclean"}, venv |-> {"scan", "reuse"}, pip_upgrade |-> {"venv"},
     install |-> {"pip_upgrade"}, icon |-> {"install"}, pack |-> {"install", "icon"},
     clean |-> {"pack_rc0"}, log |-> {"pack_rc0", "pack_rc1", "clean"},
     status |-> {"log"}]

UsesVenv == apc \in {"pip_upgrade", "install", "icon", "pack", "after_pack"}

Scanned == dManifest.exists

\* the top-level names of the absolute imports of the script
AbsoluteRoots ==
    {r \in {NameOrder[k] : k \in DOMAIN NameOrder} :
        \E i \in DOMAIN dScript :
            /\ dScript[i].level = 0
            /\ \E n \in DOMAIN dScript[i].names : dScript[i].names[n][1] = r}

\* those that are not standard-library modules, through the alias table
AliasMapped ==
    {IF r \in DOMAIN alias_map THEN alias_map[r] ELSE r : r \in AbsoluteRoots \ stdlib}

\* the distributions the running environment lists for those names
Distributions == UNION {dEnv[m] : m \in AliasMapped \cap DOMAIN dEnv}

Position(name) == CHOOSE k \in DOMAIN NameOrder : NameOrder[k] = name
\* strictly ascending, hence free of duplicates
StrictlySorted(names) ==
    \A i, j \in DOMAIN names : i < j => Position(names[i]) < Position(names[j])

\* the text is the names one per line: a name at every odd place, a line
\* break at every even place, nothing after the last name
OnePerLine(text, names) ==
    /\ Len(text) = (IF names = <<>> THEN 0 ELSE 2 * Len(names) - 1)
    /\ \A k \in DOMAIN text :
           IF k % 2 = 1 THEN text[k] = names[(k + 1) \div 2] ELSE text[k] = "\n"

\* C35 as stated: the returned list is sorted and duplicate-free, is exactly
\* the alias-mapped non-standard-library top-level names of the absolute
\* imports, and is what the manifest holds, one name per line.
C35_ExactlyAliasMappedImports ==
    Scanned =>
        /\ StrictlySorted(requirements)
        /\ {requirements[i] : i \in DOMAIN requirements} = AliasMapped
        /\ OnePerLine(dManifest.text, requirements)

\* C35 amended: the returned list is sorted and duplicate-free, and holds the
\* alias-mapped non-standard-library top-level names of the absolute imports
\* together with the distributions the running environment lists for each of
\* those names; relative imports contribute nothing; the manifest holds the
\* same list, one name per line.
C35_ImportsPlusDistributions ==
    Scanned =>
        /\ StrictlySorted(requirements)
        /\ {requirements[i] : i \in DOMAIN requirements} = AliasMapped \cup Distributions
        /\ OnePerLine(dManifest.text, requirements)

\* from attr.validators import ... and from .cv2 import ..., in an
\* environment where attr is provided by attrs
C35_Witness ==
    /\ Scanned /\ dEnv # NoDists
    /\ dScript = <<ImportFrom(<<<<"attr", "validators">>>>, 0),
                   ImportFrom(<<<<"cv2">>>>, 1)>>
    /\ requirements = <<"attr", "attrs">>
    /\ dManifest.text = <<"attr", "\n", "attrs">>

(* -------------------- claims about template management ----------------- *)
\* list_templates holds every name of the collection exactly once, and
\* nothing else
NamesOnce ==
    /\ \A name \in DOMAIN templates : Count(list_templates, name) = 1
    /\ \A i \in DOMAIN list_templates : list_templates[i] \in DOMAIN templates

\* what one add_template call does, by its arguments
AddTemplateStep ==
    LET call == tLast'
    IN  IF call.name \in DOMAIN templates /\ ~call.overwrite
        THEN call.raised /\ templates' = templates /\ tOrder' = tOrder
        ELSE /\ ~call.raised
             /\ DOMAIN templates' = DOMAIN templates \cup {call.name}
             /\ templates'[call.name] = call.template
             /\ \A n \in DOMAIN templates \ {call.name} : templates'[n] = templates[n]

\* C36: add_template with an existing name and overwrite=False raises and
\* leaves the collection unchanged; with a new name, or with overwrite=True,
\* it sets exactly that name's template and changes no other entry; after any
\* sequence of calls list_templates contains each template name exactly once.
C36_AddTemplate == []NamesOnce /\ [][tCalls' # tCalls => AddTemplateStep]_vars

\* "flat" was overwritten by the first call and refused by the second; "neon"
\* is as it was constructed
C36_Witness ==
    /\ tCalls = 2 /\ tLast.raised /\ tLast.name = "flat" /\ ~tLast.overwrite
    /\ DOMAIN templates = {"flat", "neon"}
    /\ templates["flat"] = <<"plain">> /\ templates["neon"] = <<SLOT, "in neon">>
    /\ list_templates = <<"flat", "neon">>
====
